---- MODULE Spec2Model ----
(***************************************************************************)
(* Model of the local memory system: text chunking (chunking.ts), the      *)
(* vector store adapter (vector-store.ts), the MemorySystem orchestrator   *)
(* (memory-system.ts) and the streaming branch of POST /api/chat.          *)
(*                                                                         *)
(* Strings are sequences of one-character strings, so that splitting,      *)
(* trimming and joining are computed character by character.               *)
(***************************************************************************)
EXTENDS Integers, Sequences, FiniteSets, TLC

VARIABLES
    config,     \* MemorySystem.config (maxChunkTokens, overlapTokens)
    store,      \* the points of the Qdrant collection 'memories'
    nextId,     \* supply of randomUUID(): the next id never handed out before
    calls,      \* the addMemory calls in flight, one per slot
    ret,        \* outcome of the operation step that ran last
    input,      \* arguments of a direct call of a chunking.ts function, or
                \* the body of a POST /execute request
    output,     \* its return value, or the response to the request
    stream,     \* one chatStream generator, its provider and its consumer
    collection, \* whether the Qdrant collection 'memories' exists
    procs       \* the CLI processes, each running one command

vars ==
    <<config, store, nextId, calls, ret, input, output, stream, collection,
      procs>>

----------------------------------------------------------------------------
(* Bounds of the model *)

MaxTextLen == 7       \* longest text handed directly to chunkText
MaxTokensBound == 3   \* largest maxTokens / overlapTokens tried on chunkText
MaxIds == 3           \* ids drawn from randomUUID() in one behaviour
MaxFragments == 3     \* fragments the chat provider delivers in one stream
MaxRawLen == 6        \* longest text handed directly to normalizeText

----------------------------------------------------------------------------
(* Characters and strings *)

Whitespace == {" ", "\t", "\n"}

Terminators == {".", "!", "?"}

Min(a, b) == IF a < b THEN a ELSE b

RECURSIVE SeqSum(_)
SeqSum(s) == IF s = <<>> THEN 0 ELSE Head(s) + SeqSum(Tail(s))

\* String.prototype.trim: strip leading and trailing whitespace
RECURSIVE TrimStart(_)
TrimStart(s) ==
    IF s # <<>> /\ Head(s) \in Whitespace THEN TrimStart(Tail(s)) ELSE s

RECURSIVE TrimEnd(_)
TrimEnd(s) ==
    IF s # <<>> /\ s[Len(s)] \in Whitespace
    THEN TrimEnd(SubSeq(s, 1, Len(s) - 1))
    ELSE s

Trim(s) == TrimEnd(TrimStart(s))

\* drop the maximal run of characters of set cs at the front of s
RECURSIVE DropRun(_, _)
DropRun(s, cs) ==
    IF s # <<>> /\ Head(s) \in cs THEN DropRun(Tail(s), cs) ELSE s

\* text.split(/[.!?]+/): the pieces between maximal runs of terminators
RECURSIVE SplitOnTerminators(_, _)
SplitOnTerminators(s, cur) ==
    IF s = <<>> THEN <<cur>>
    ELSE IF Head(s) \in Terminators
         THEN <<cur>> \o SplitOnTerminators(DropRun(s, Terminators), <<>>)
         ELSE SplitOnTerminators(Tail(s), Append(cur, Head(s)))

\* splitIntoSentences without the filter on empty pieces
splitIntoSentences_unfiltered(text) ==
    LET pieces == SplitOnTerminators(text, <<>>)
    IN  [i \in 1..Len(pieces) |-> Trim(pieces[i])]

\* chunking.ts splitIntoSentences: split, trim each piece, drop the empty ones
splitIntoSentences(text) ==
    LET pieces  == SplitOnTerminators(text, <<>>)
        trimmed == [i \in 1..Len(pieces) |-> Trim(pieces[i])]
    IN  SelectSeq(trimmed, LAMBDA s : Len(s) > 0)

\* estimateTokenCount rounding down
estimateTokenCount_floor(text) == Len(text) \div 4

\* chunking.ts estimateTokenCount: Math.ceil(text.length / 4)
estimateTokenCount(text) == (Len(text) + 3) \div 4

\* currentChunk.join('.') + '.': the sentences joined without the space
RECURSIVE JoinSentences_noSpace(_)
JoinSentences_noSpace(ss) ==
    IF ss = <<>> THEN <<".">>
    ELSE IF Len(ss) = 1 THEN Head(ss) \o <<".">>
    ELSE Head(ss) \o <<".">> \o JoinSentences_noSpace(Tail(ss))

\* currentChunk.join('. ') + '.'
RECURSIVE JoinSentences(_)
JoinSentences(ss) ==
    IF ss = <<>> THEN <<".">>
    ELSE IF Len(ss) = 1 THEN Head(ss) \o <<".">>
    ELSE Head(ss) \o <<".", " ">> \o JoinSentences(Tail(ss))

\* an overlap loop that pushes instead of unshifting, so the overlap comes
\* out in reverse order
RECURSIVE OverlapWalk_pushed(_, _, _, _, _)
OverlapWalk_pushed(currentChunk, i, overlapSentences, overlapCount, overlapTokens) ==
    IF i < 1 THEN [sentences |-> overlapSentences, count |-> overlapCount]
    ELSE LET tokens == estimateTokenCount(currentChunk[i])
         IN  IF overlapCount + tokens <= overlapTokens
             THEN OverlapWalk_pushed(currentChunk, i - 1,
                                     Append(overlapSentences, currentChunk[i]),
                                     overlapCount + tokens, overlapTokens)
             ELSE [sentences |-> overlapSentences, count |-> overlapCount]

\* an overlap loop that skips a sentence that does not fit and goes on to the
\* earlier ones
RECURSIVE OverlapWalk_skip(_, _, _, _, _)
OverlapWalk_skip(currentChunk, i, overlapSentences, overlapCount, overlapTokens) ==
    IF i < 1 THEN [sentences |-> overlapSentences, count |-> overlapCount]
    ELSE LET tokens == estimateTokenCount(currentChunk[i])
         IN  IF overlapCount + tokens <= overlapTokens
             THEN OverlapWalk_skip(currentChunk, i - 1,
                                   <<currentChunk[i]>> \o overlapSentences,
                                   overlapCount + tokens, overlapTokens)
             ELSE OverlapWalk_skip(currentChunk, i - 1, overlapSentences,
                                   overlapCount, overlapTokens)

\* the overlap loop of chunkText: walk currentChunk backward from index i,
\* unshift sentences while the running count stays <= overlapTokens, break
\* at the first sentence that does not fit
RECURSIVE OverlapWalk(_, _, _, _, _)
OverlapWalk(currentChunk, i, overlapSentences, overlapCount, overlapTokens) ==
    IF i < 1 THEN [sentences |-> overlapSentences, count |-> overlapCount]
    ELSE LET tokens == estimateTokenCount(currentChunk[i])
         IN  IF overlapCount + tokens <= overlapTokens
             THEN OverlapWalk(currentChunk, i - 1,
                              <<currentChunk[i]>> \o overlapSentences,
                              overlapCount + tokens, overlapTokens)
             ELSE [sentences |-> overlapSentences, count |-> overlapCount]

\* the main loop of chunkText over the remaining sentences
RECURSIVE ChunkLoop(_, _, _, _, _, _, _)
ChunkLoop(sentences, chunks, currentChunk, currentTokenCount, chunkIndex, maxTokens, overlapTokens) ==
    IF sentences = <<>>
    THEN IF Len(currentChunk) > 0
         THEN Append(chunks, [text       |-> JoinSentences(currentChunk),
                              index      |-> chunkIndex,
                              tokenCount |-> currentTokenCount])
         ELSE chunks
    ELSE LET sentence       == Head(sentences)
             sentenceTokens == estimateTokenCount(sentence)
         IN  IF currentTokenCount + sentenceTokens > maxTokens
                /\ Len(currentChunk) > 0
             THEN LET ov == OverlapWalk(currentChunk, Len(currentChunk),
                                        <<>>, 0, overlapTokens)
                  IN  ChunkLoop(Tail(sentences),
                                Append(chunks,
                                       [text       |-> JoinSentences(currentChunk),
                                        index      |-> chunkIndex,
                                        tokenCount |-> currentTokenCount]),
                                Append(ov.sentences, sentence),
                                ov.count + sentenceTokens,
                                chunkIndex + 1, maxTokens, overlapTokens)
             ELSE ChunkLoop(Tail(sentences), chunks,
                            Append(currentChunk, sentence),
                            currentTokenCount + sentenceTokens,
                            chunkIndex, maxTokens, overlapTokens)

\* chunkText numbering its chunks from 1
chunkText_indexFrom1(text, maxTokens, overlapTokens) ==
    ChunkLoop(splitIntoSentences(text), <<>>, <<>>, 0, 1,
              maxTokens, overlapTokens)

\* chunking.ts chunkText
chunkText(text, maxTokens, overlapTokens) ==
    ChunkLoop(splitIntoSentences(text), <<>>, <<>>, 0, 0,
              maxTokens, overlapTokens)

\* text.replace(/\s+/g, ' '): every maximal whitespace run becomes one space
RECURSIVE CollapseWhitespace(_)
CollapseWhitespace(s) ==
    IF s = <<>> THEN <<>>
    ELSE IF Head(s) \in Whitespace
         THEN <<" ">> \o CollapseWhitespace(DropRun(s, Whitespace))
         ELSE <<Head(s)>> \o CollapseWhitespace(Tail(s))

\* text.replace(/\n+/g, '\n'): every maximal newline run becomes one newline
RECURSIVE CollapseNewlines(_)
CollapseNewlines(s) ==
    IF s = <<>> THEN <<>>
    ELSE IF Head(s) = "\n"
         THEN <<"\n">> \o CollapseNewlines(DropRun(s, {"\n"}))
         ELSE <<Head(s)>> \o CollapseNewlines(Tail(s))

\* text.replace(/[ \t]+/g, ' '): every maximal run of spaces and tabs becomes
\* one space
RECURSIVE CollapseBlanks(_)
CollapseBlanks(s) ==
    IF s = <<>> THEN <<>>
    ELSE IF Head(s) \in {" ", "\t"}
         THEN <<" ">> \o CollapseBlanks(DropRun(s, {" ", "\t"}))
         ELSE <<Head(s)>> \o CollapseBlanks(Tail(s))

\* normalizeText whose first replace spares the newlines
normalizeText_newlinesKept(text) ==
    Trim(CollapseNewlines(CollapseBlanks(text)))

\* normalizeText without the trim
normalizeText_untrimmed(text) == CollapseNewlines(CollapseWhitespace(text))

\* chunking.ts normalizeText
normalizeText(text) == Trim(CollapseNewlines(CollapseWhitespace(text)))

----------------------------------------------------------------------------
(* chunking.ts extractMetadata *)

\* does the literal pat occur in s starting at position i
MatchesAt(s, i, pat) ==
    /\ i + Len(pat) - 1 <= Len(s)
    /\ \A k \in 1..Len(pat) : s[i + k - 1] = pat[k]

\* text.split(/\s+/).length: one more than the number of whitespace runs
RECURSIVE CountWhitespaceRuns(_)
CountWhitespaceRuns(s) ==
    IF s = <<>> THEN 0
    ELSE IF Head(s) \in Whitespace
         THEN 1 + CountWhitespaceRuns(DropRun(s, Whitespace))
         ELSE CountWhitespaceRuns(Tail(s))

\* /https?:\/\/[^\s]+/.test(text)
HasUrl(text) ==
    \E i \in 1..Len(text) :
        \E pat \in {<<"h","t","t","p",":","/","/">>,
                    <<"h","t","t","p","s",":","/","/">>} :
            /\ MatchesAt(text, i, pat)
            /\ i + Len(pat) <= Len(text)
            /\ text[i + Len(pat)] \notin Whitespace

\* /[^\s]+@[^\s]+\.[^\s]+/.test(text)
HasEmail(text) ==
    \E i \in 2..Len(text) : \E p \in (i + 2)..(Len(text) - 1) :
        /\ text[i] = "@"
        /\ text[i - 1] \notin Whitespace
        /\ \A k \in (i + 1)..(p - 1) : text[k] \notin Whitespace
        /\ text[p] = "."
        /\ text[p + 1] \notin Whitespace

extractMetadata(text) ==
    [wordCount |-> CountWhitespaceRuns(text) + 1,
     charCount |-> Len(text),
     hasUrl    |-> HasUrl(text),
     hasEmail  |-> HasEmail(text),
     language  |-> "en"]

\* object spread {...f, ...g}: the keys of both, g wins on a collision
Spread(f, g) ==
    [k \in DOMAIN f \cup DOMAIN g |-> IF k \in DOMAIN g THEN g[k] ELSE f[k]]

----------------------------------------------------------------------------
(* The external services, by their contracts *)

\* An absent optional argument is <<>>, a supplied one is <<value>>.
Absent == <<>>

\* `x || d` on a number: d when x is undefined or 0
OrDefault(opt, d) == IF opt = Absent \/ opt[1] = 0 THEN d ELSE opt[1]

\* `{ x = d } = options`: d only when x is undefined
Defaulted(opt, d) == IF opt = Absent THEN d ELSE opt[1]

\* ollama.embeddings: the embedding of a text is a function of the text.
\* Vectors are abstracted to three directions.
Embedding(text) == Len(text) % 3

\* Cosine score of two vectors in hundredths (100 = identical direction)
Score(v, w) == 100 - 50 * (IF v >= w THEN v - w ELSE w - v)

\* QdrantClient.upsert of one point: insert, or replace the point of that id
Upsert(s, point) == {p \in s : p.id # point.id} \cup {point}

\* QdrantClient.search over the points that pass the filter: the `limit`
\* best of them scoring at least score_threshold, by descending score; the
\* order among equal scores is the store's choice.
QdrantSearch(filtered, vector, limit, scoreThreshold) ==
    LET M == {p \in filtered : Score(vector, p.vector) >= scoreThreshold}
        k == Min(limit, Cardinality(M))
    IN  {r \in [1..k -> M] :
            /\ \A i, j \in 1..k : i < j =>
                  /\ r[i] # r[j]
                  /\ Score(vector, r[i].vector) >= Score(vector, r[j].vector)
            /\ \A p \in M : (\A i \in 1..k : r[i] # p) =>
                  \A i \in 1..k :
                      Score(vector, p.vector) <= Score(vector, r[i].vector)}

----------------------------------------------------------------------------
(* vector-store.ts: class VectorStore *)

\* VectorStore.addMemory that keys the point by user and chunk index
VectorStoreAddMemory_keyedByChunk(s, id, embedding, payload) ==
    {p \in s : ~(/\ p.payload.userId = payload.userId
                 /\ p.payload.metadata.chunkIndex
                      = payload.metadata.chunkIndex)}
    \cup {[id |-> id, vector |-> embedding, payload |-> payload]}

\* VectorStore.addMemory that resolves without writing the point
VectorStoreAddMemory_dropped(s, id, embedding, payload) == s

\* VectorStore.addMemory: upsert one point {id, vector, payload}
VectorStoreAddMemory(s, id, embedding, payload) ==
    Upsert(s, [id |-> id, vector |-> embedding, payload |-> payload])

\* one hit of VectorStore.search: {id, score, text, metadata} (the timestamp
\* is not modelled)
SearchHit(p, embedding) ==
    [id       |-> p.id,
     score    |-> Score(embedding, p.vector),
     text     |-> p.payload.text,
     metadata |-> p.payload.metadata]

\* VectorStore.search without the `must` filter on userId
VectorStoreSearch_unfiltered(s, embedding, userId, limit, scoreThreshold) ==
    {[i \in 1..Len(r) |-> SearchHit(r[i], embedding)] :
       r \in QdrantSearch(s, embedding, limit, scoreThreshold)}

\* VectorStore.search: the possible result arrays
VectorStoreSearch(s, embedding, userId, limit, scoreThreshold) ==
    {[i \in 1..Len(r) |-> SearchHit(r[i], embedding)] :
       r \in QdrantSearch({p \in s : p.payload.userId = userId},
                          embedding, limit, scoreThreshold)}

\* VectorStore.deleteMemory that deletes every point of the user who owns
\* the point of that id
VectorStoreDeleteMemory_ofOwner(s, id) ==
    {p \in s : \A q \in s : q.id = id => q.payload.userId # p.payload.userId}

\* VectorStore.deleteMemory: delete the point of that id, if any
VectorStoreDeleteMemory(s, id) == {p \in s : p.id # id}

\* VectorStore.deleteUserMemories: delete by filter userId = userId
VectorStoreDeleteUserMemories(s, userId) ==
    {p \in s : p.payload.userId # userId}

\* VectorStore.getCount: `userId ? {filter} : undefined`, so an absent and an
\* empty userId both count without a filter
VectorStoreGetCount(s, userId) ==
    IF userId # Absent /\ userId[1] # ""
    THEN Cardinality({p \in s : p.payload.userId = userId[1]})
    ELSE Cardinality(s)

\* VectorStore.healthCheck: getCollections() in a try/catch
VectorStoreHealthCheck(reachable) == IF reachable THEN TRUE ELSE FALSE

----------------------------------------------------------------------------
(* memory-system.ts: class MemorySystem *)

\* MemorySystem constructor
Constructor(cfg) ==
    [maxChunkTokens |-> OrDefault(cfg.maxChunkTokens, 500),
     overlapTokens  |-> OrDefault(cfg.overlapTokens, 50)]

\* searchMemories with a scoreThreshold that defaults to 0
searchMemories_threshold0(s, userId, query, limit, scoreThreshold) ==
    VectorStoreSearch(s, Embedding(query), userId,
                      Defaulted(limit, 5), Defaulted(scoreThreshold, 0))

\* MemorySystem.searchMemories: the possible returns with both services up
searchMemories(s, userId, query, limit, scoreThreshold) ==
    VectorStoreSearch(s, Embedding(query), userId,
                      Defaulted(limit, 5), Defaulted(scoreThreshold, 50))

\* chunkMetadata with the caller's metadata spread last
ChunkMetadata_callerLast(metadata, chunk, totalChunks) ==
    Spread(Spread(extractMetadata(chunk.text),
                  [chunkIndex |-> chunk.index, totalChunks |-> totalChunks]),
           metadata)

\* chunkMetadata with the caller's metadata spread over the extracted keys
ChunkMetadata_callerOverExtracted(metadata, chunk, totalChunks) ==
    Spread(Spread(extractMetadata(chunk.text), metadata),
           [chunkIndex |-> chunk.index, totalChunks |-> totalChunks])

\* the chunkMetadata object built by addMemory for one chunk
ChunkMetadata(metadata, chunk, totalChunks) ==
    Spread(Spread(metadata, extractMetadata(chunk.text)),
           [chunkIndex |-> chunk.index, totalChunks |-> totalChunks])

\* the system message of chat / chatStream: the prompt, followed by a context
\* block with one numbered entry per memory when there is any memory
ContextPrompt(systemPrompt, memories) ==
    [prompt  |-> systemPrompt,
     context |-> [i \in 1..Len(memories) |->
                     [number    |-> i,
                      relevance |-> memories[i].score,
                      text      |-> memories[i].text]]]

\* a chatStream context block that numbers the memories from 0
ChatStreamContextPrompt_from0(systemPrompt, memories) ==
    [prompt  |-> systemPrompt,
     context |-> [i \in 1..Len(memories) |->
                     [number    |-> i - 1,
                      relevance |-> memories[i].score,
                      text      |-> memories[i].text]]]

\* the system message of chatStream, assembled by its own copy of the code
\* of chat
ChatStreamContextPrompt(systemPrompt, memories) ==
    [prompt  |-> systemPrompt,
     context |-> IF Len(memories) > 0
                 THEN [i \in 1..Len(memories) |->
                          [number    |-> i,
                           relevance |-> memories[i].score,
                           text      |-> memories[i].text]]
                 ELSE <<>>]

\* healthCheck that probes Ollama only when the vector store answered
healthCheck_coupled(qdrantReachable, ollamaReachable) ==
    [qdrant |-> VectorStoreHealthCheck(qdrantReachable),
     ollama |-> qdrantReachable /\ ollamaReachable]

\* MemorySystem.healthCheck: both probes, each caught on its own
healthCheck(qdrantReachable, ollamaReachable) ==
    [qdrant |-> VectorStoreHealthCheck(qdrantReachable),
     ollama |-> IF ollamaReachable THEN TRUE ELSE FALSE]

----------------------------------------------------------------------------
(* Inputs *)

Users == {"", "u1"}

\* "b" is one sentence; "aaaaa. b" is two sentences of 2 and 1 tokens;
\* "." has no sentence
Contents == {<<"b">>, <<"a","a","a","a","a","."," ","b">>, <<".">>}

Queries == {<<"a","a","a","a","a">>}

EmptyMetadata == [k \in {} |-> 0]

\* caller metadata with a key of its own, a key addMemory sets itself and a
\* key extractMetadata produces
Metadatas == {[type |-> "test", chunkIndex |-> 7, wordCount |-> 99]}

ConfigInputs == {[maxChunkTokens |-> <<2>>, overlapTokens |-> <<1>>]}

\* contents with an e-mail address, with '!' and with '?'
MailContents ==
    {<<"a", "@", "b", ".", "c", "o", "m">>,
     <<"t", "o", " ", "a", "@", "b", ".", "c", "?", " ", "o", "k", "!">>}

\* the MemoryConfig objects a caller may construct the system with
MemoryConfigs ==
    [maxChunkTokens : {Absent, <<2>>}, overlapTokens : {Absent, <<0>>, <<1>>}]

Slots == {1, 2}

DefaultSystemPrompt ==
    "You are a helpful AI assistant with access to the user's memories."

IdleCall == [pc |-> "idle"]

NoInput == [fn |-> "none"]

NoOutput == [done |-> FALSE]

NoStream == [pc |-> "none"]

\* the CLI processes that may run at the same time
Processes == {1, 2}

IdleProcess == [pc |-> "idle"]

\* characters of the texts handed directly to chunkText
Alphabet == {"a", " ", "."}

RECURSIVE TextsOfLength(_)
TextsOfLength(n) ==
    IF n = 0 THEN {<<>>}
    ELSE {Append(t, ch) : t \in TextsOfLength(n - 1), ch \in Alphabet}

\* longer texts: a short sentence before and after a long one, two long
\* sentences, and a sentence of three tokens after and before a short one
LongTexts ==
    {<<"a",".","a","a","a","a","a",".","a">>,
     <<"a","a","a","a","a",".","a","a","a","a","a">>,
     <<"a",".","a","a","a","a","a","a","a","a","a">>,
     <<"a","a","a","a","a","a","a","a","a",".","a">>}

Texts == UNION {TextsOfLength(n) : n \in 0..MaxTextLen} \cup LongTexts

\* characters of the texts handed directly to normalizeText
RawAlphabet == {"a", " ", "\t", "\n"}

RECURSIVE RawTextsOfLength(_)
RawTextsOfLength(n) ==
    IF n = 0 THEN {<<>>}
    ELSE {Append(t, ch) : t \in RawTextsOfLength(n - 1), ch \in RawAlphabet}

RawTexts == UNION {RawTextsOfLength(n) : n \in 0..MaxRawLen}

\* fragments the chat provider may deliver
Fragments == {"x", "y", "z"}

----------------------------------------------------------------------------
(* The memory system as a state machine.  Every await of addMemory is a     *)
(* point where other requests interleave.  Each call of an external        *)
(* service either resolves or throws; which one is an input of the step.   *)

pureVars == <<input, output, stream, collection, procs>>

\* what an addMemory step leaves in ret
AddOutcome(c, call, done, ok, ids, memoryIds, wrote, failedId) ==
    [op        |-> "addMemory",
     slot      |-> c,
     done      |-> done,
     ok        |-> ok,
     userId    |-> call.userId,
     content   |-> call.content,
     metadata  |-> call.metadata,
     ids       |-> ids,
     memoryIds |-> memoryIds,
     wrote     |-> wrote,
     failedId  |-> failedId]

\* ids the calls in flight will still draw from randomUUID()
RECURSIVE Reserved(_)
Reserved(S) ==
    IF S = {} THEN 0
    ELSE LET c == CHOOSE d \in S : TRUE
         IN  (IF calls[c].pc = "idle" THEN 0
              ELSE Len(calls[c].chunks) - Len(calls[c].memoryIds) - 1)
             + Reserved(S \ {c})

\* addMemory up to its first await: normalize, chunk, draw the first id.
\* The call takes the first free slot.
AddStart(c, userId, content, metadata) ==
    /\ calls[c].pc = "idle"
    /\ \A d \in Slots : d < c => calls[d].pc # "idle"
    /\ LET normalized == normalizeText(content)
           chunks     == chunkText(normalized, config.maxChunkTokens,
                                   config.overlapTokens)
           call       == [pc        |-> "embed",
                          userId    |-> userId,
                          content   |-> content,
                          metadata  |-> metadata,
                          chunks    |-> chunks,
                          memoryIds |-> <<>>,
                          id        |-> nextId,
                          embedding |-> 0]
       IN  /\ (nextId - 1) + Reserved(Slots) + Len(chunks) <= MaxIds
           /\ IF chunks = <<>>
              THEN /\ calls' = calls
                   /\ nextId' = nextId
                   /\ ret' = AddOutcome(c, call, TRUE, TRUE, <<>>, <<>>,
                                        Absent, Absent)
              ELSE /\ calls' = [calls EXCEPT ![c] = call]
                   /\ nextId' = nextId + 1
                   /\ ret' = AddOutcome(c, call, FALSE, TRUE, <<>>, <<>>,
                                        Absent, Absent)
    /\ UNCHANGED <<config, store, pureVars>>

\* generateEmbedding(chunk.text) resolves
AddEmbedOk(c) ==
    /\ calls[c].pc = "embed"
    /\ LET call  == calls[c]
           chunk == call.chunks[Len(call.memoryIds) + 1]
       IN  /\ calls' = [calls EXCEPT ![c].pc = "write",
                                     ![c].embedding = Embedding(chunk.text)]
           /\ ret' = AddOutcome(c, call, FALSE, TRUE, <<>>, call.memoryIds,
                                Absent, Absent)
    /\ UNCHANGED <<config, store, nextId, pureVars>>

\* a failing addMemory that deletes the chunks it has written
AddEmbedFail_rollback(c) ==
    /\ calls[c].pc = "embed"
    /\ LET call == calls[c]
       IN  /\ ret' = AddOutcome(c, call, TRUE, FALSE, <<>>, call.memoryIds,
                                Absent, <<call.id>>)
           /\ store' = {p \in store :
                           \A i \in 1..Len(call.memoryIds) :
                               p.id # call.memoryIds[i]}
    /\ calls' = [calls EXCEPT ![c] = IdleCall]
    /\ UNCHANGED <<config, nextId, pureVars>>

\* generateEmbedding(chunk.text) throws: addMemory rejects, nothing is undone
AddEmbedFail(c) ==
    /\ calls[c].pc = "embed"
    /\ LET call == calls[c]
       IN  ret' = AddOutcome(c, call, TRUE, FALSE, <<>>, call.memoryIds,
                             Absent, <<call.id>>)
    /\ calls' = [calls EXCEPT ![c] = IdleCall]
    /\ UNCHANGED <<config, store, nextId, pureVars>>

\* vectorStore.addMemory resolves; then memoryIds.push(id) and either the
\* next iteration up to its await, or the return
AddWriteOk(c) ==
    /\ calls[c].pc = "write"
    /\ LET call      == calls[c]
           chunk     == call.chunks[Len(call.memoryIds) + 1]
           payload   == [text     |-> chunk.text,
                         userId   |-> call.userId,
                         metadata |-> ChunkMetadata(call.metadata, chunk,
                                                    Len(call.chunks))]
           memoryIds == Append(call.memoryIds, call.id)
       IN  /\ store' = VectorStoreAddMemory(store, call.id, call.embedding,
                                            payload)
           /\ IF Len(memoryIds) < Len(call.chunks)
              THEN /\ calls' = [calls EXCEPT ![c].pc = "embed",
                                            ![c].memoryIds = memoryIds,
                                            ![c].id = nextId]
                   /\ nextId' = nextId + 1
                   /\ ret' = AddOutcome(c, call, FALSE, TRUE, <<>>, memoryIds,
                                        <<call.id>>, Absent)
              ELSE /\ calls' = [calls EXCEPT ![c] = IdleCall]
                   /\ nextId' = nextId
                   /\ ret' = AddOutcome(c, call, TRUE, TRUE, memoryIds,
                                        memoryIds, <<call.id>>, Absent)
    /\ UNCHANGED <<config, pureVars>>

\* vectorStore.addMemory throws: addMemory rejects, nothing is undone
AddWriteFail(c) ==
    /\ calls[c].pc = "write"
    /\ LET call == calls[c]
       IN  ret' = AddOutcome(c, call, TRUE, FALSE, <<>>, call.memoryIds,
                             Absent, <<call.id>>)
    /\ calls' = [calls EXCEPT ![c] = IdleCall]
    /\ UNCHANGED <<config, store, nextId, pureVars>>

\* MemorySystem.searchMemories, generateEmbedding and vectorStore.search
\* both resolving
SearchMemories(userId, query, limit, scoreThreshold) ==
    /\ \E results \in searchMemories(store, userId, query, limit,
                                     scoreThreshold) :
          ret' = [op             |-> "searchMemories",
                  ok             |-> TRUE,
                  userId         |-> userId,
                  query          |-> query,
                  limit          |-> limit,
                  scoreThreshold |-> scoreThreshold,
                  results        |-> results]
    /\ UNCHANGED <<config, store, nextId, calls, pureVars>>

\* what chat returns for the memories it found
ChatResult(includeMemoryContext, maxContextMemories, memories) ==
    [response     |-> "response",
     memoriesUsed |-> IF includeMemoryContext THEN maxContextMemories ELSE 0]

\* MemorySystem.chat, every external call resolving
Chat(userId, message, systemPromptOpt, includeOpt, maxOpt) ==
    /\ LET systemPrompt         == Defaulted(systemPromptOpt, DefaultSystemPrompt)
           includeMemoryContext == Defaulted(includeOpt, TRUE)
           maxContextMemories   == Defaulted(maxOpt, 5)
       IN  \E memories \in
               (IF includeMemoryContext
                THEN searchMemories(store, userId, message,
                                    <<maxContextMemories>>, Absent)
                ELSE {<<>>}) :
              ret' = [op                   |-> "chat",
                      ok                   |-> TRUE,
                      systemPrompt         |-> systemPromptOpt,
                      userId               |-> userId,
                      message              |-> message,
                      includeMemoryContext |-> includeMemoryContext,
                      maxContextMemories   |-> maxContextMemories,
                      memories             |-> memories,
                      system               |-> ContextPrompt(systemPrompt,
                                                             memories),
                      result               |-> ChatResult(includeMemoryContext,
                                                          maxContextMemories,
                                                          memories)]
    /\ UNCHANGED <<config, store, nextId, calls, pureVars>>

\* MemorySystem.chatStream up to its call of ollama.chat({stream: true}),
\* the search resolving; the fragments that follow are SpecStream's
ChatStreamContext(userId, message, systemPromptOpt, includeOpt, maxOpt) ==
    /\ LET systemPrompt         == Defaulted(systemPromptOpt, DefaultSystemPrompt)
           includeMemoryContext == Defaulted(includeOpt, TRUE)
           maxContextMemories   == Defaulted(maxOpt, 5)
       IN  \E memories \in
               (IF includeMemoryContext
                THEN searchMemories(store, userId, message,
                                    <<maxContextMemories>>, Absent)
                ELSE {<<>>}) :
              ret' = [op                   |-> "chatStream",
                      ok                   |-> TRUE,
                      systemPrompt         |-> systemPromptOpt,
                      userId               |-> userId,
                      message              |-> message,
                      includeMemoryContext |-> includeMemoryContext,
                      maxContextMemories   |-> maxContextMemories,
                      memories             |-> memories,
                      system               |-> ChatStreamContextPrompt(
                                                   systemPrompt, memories)]
    /\ UNCHANGED <<config, store, nextId, calls, pureVars>>

\* MemorySystem.deleteMemory, the store resolving
DeleteMemory(id) ==
    /\ store' = VectorStoreDeleteMemory(store, id)
    /\ ret' = [op |-> "deleteMemory", ok |-> TRUE, id |-> id]
    /\ UNCHANGED <<config, nextId, calls, pureVars>>

\* MemorySystem.deleteUserMemories, the store resolving
DeleteUserMemories(userId) ==
    /\ store' = VectorStoreDeleteUserMemories(store, userId)
    /\ ret' = [op |-> "deleteUserMemories", ok |-> TRUE, userId |-> userId]
    /\ UNCHANGED <<config, nextId, calls, pureVars>>

\* MemorySystem.getMemoryCount, the store resolving
GetMemoryCount(userId) ==
    /\ ret' = [op     |-> "getMemoryCount",
               ok     |-> TRUE,
               userId |-> userId,
               count  |-> VectorStoreGetCount(store, userId)]
    /\ UNCHANGED <<config, store, nextId, calls, pureVars>>

\* searchMemories, chat, deleteMemory, deleteUserMemories or getMemoryCount
\* with an external call that throws: nothing is caught, the operation
\* rejects and no state has changed
Reject(op) ==
    /\ ret' = [op |-> op, ok |-> FALSE]
    /\ UNCHANGED <<config, store, nextId, calls, pureVars>>

\* MemorySystem.healthCheck against services that are reachable or not
HealthCheck(qdrantReachable, ollamaReachable) ==
    /\ ret' = [op              |-> "healthCheck",
               raised          |-> FALSE,
               qdrantReachable |-> qdrantReachable,
               ollamaReachable |-> ollamaReachable,
               health          |-> healthCheck(qdrantReachable,
                                               ollamaReachable)]
    /\ UNCHANGED <<config, store, nextId, calls, pureVars>>

RejectingOps ==
    {"searchMemories", "deleteMemory", "deleteUserMemories", "getMemoryCount"}

Init ==
    /\ config \in {Constructor(cfg) : cfg \in ConfigInputs}
    /\ store = {}
    /\ nextId = 1
    /\ calls = [c \in Slots |-> IdleCall]
    /\ ret = [op |-> "init"]
    /\ input = NoInput
    /\ output = NoOutput
    /\ stream = NoStream
    /\ collection = TRUE
    /\ procs = [p \in Processes |-> IdleProcess]

Next ==
    \/ \E c \in Slots, u \in Users, content \in Contents, m \in Metadatas :
          AddStart(c, u, content, m)
    \/ \E c \in Slots : AddEmbedOk(c)
    \/ \E c \in Slots : AddEmbedFail(c)
    \/ \E c \in Slots : AddWriteOk(c)
    \/ \E c \in Slots : AddWriteFail(c)
    \/ \E u \in Users, q \in Queries, limit \in {Absent, <<1>>},
          thr \in {Absent, <<0>>} :
          SearchMemories(u, q, limit, thr)
    \/ \E id \in 0..(nextId - 1) : DeleteMemory(id)
    \/ \E u \in Users : DeleteUserMemories(u)
    \/ \E u \in {Absent} \cup {<<v>> : v \in Users} : GetMemoryCount(u)
    \/ \E op \in RejectingOps : Reject(op)

\* memories are added, searched, counted and deleted
Spec == Init /\ [][Next]_vars

NextChat ==
    \/ \E c \in Slots, u \in Users, content \in Contents, m \in Metadatas :
          AddStart(c, u, content, m)
    \/ \E c \in Slots : AddEmbedOk(c)
    \/ \E c \in Slots : AddEmbedFail(c)
    \/ \E c \in Slots : AddWriteOk(c)
    \/ \E c \in Slots : AddWriteFail(c)
    \/ \E u \in Users : DeleteUserMemories(u)
    \/ \E u \in Users, q \in Queries, inc \in {Absent, <<FALSE>>},
          max \in {Absent, <<1>>} :
          Chat(u, q, Absent, inc, max)
    \/ \E u \in Users, q \in Queries : Chat(u, q, <<"Be brief">>, Absent, Absent)
    \/ \E u \in Users, q \in Queries, sp \in {Absent, <<"Be brief">>},
          inc \in {Absent, <<FALSE>>} :
          ChatStreamContext(u, q, sp, inc, Absent)
    \/ Reject("chat")
    \/ \E q \in BOOLEAN, o \in BOOLEAN : HealthCheck(q, o)

\* memories are added and deleted by user while clients chat and probe health
SpecChat == Init /\ [][NextChat]_vars

NextConcurrentAdd ==
    \/ \E c \in Slots, u \in Users, content \in Contents, m \in Metadatas :
          AddStart(c, u, content, m)
    \/ \E c \in Slots : AddEmbedOk(c)
    \/ \E c \in Slots : AddEmbedFail(c)
    \/ \E c \in Slots : AddWriteOk(c)
    \/ \E c \in Slots : AddWriteFail(c)

\* addMemory calls only, up to two of them in flight
SpecConcurrentAdd == Init /\ [][NextConcurrentAdd]_vars

\* new MemorySystem(config) for any of the configurations
InitConstructed ==
    /\ \E cfg \in MemoryConfigs :
          /\ input = [fn |-> "constructor", config |-> cfg]
          /\ config = Constructor(cfg)
    /\ store = {}
    /\ nextId = 1
    /\ calls = [c \in Slots |-> IdleCall]
    /\ ret = [op |-> "init"]
    /\ output = NoOutput
    /\ stream = NoStream
    /\ collection = TRUE
    /\ procs = [p \in Processes |-> IdleProcess]

\* addMemory calls on a system constructed with any configuration
SpecConstructed == InitConstructed /\ [][NextConcurrentAdd]_vars

NextMail ==
    \/ \E c \in Slots, u \in Users, content \in MailContents, m \in Metadatas :
          AddStart(c, u, content, m)
    \/ \E c \in Slots : AddEmbedOk(c)
    \/ \E c \in Slots : AddEmbedFail(c)
    \/ \E c \in Slots : AddWriteOk(c)
    \/ \E c \in Slots : AddWriteFail(c)

\* addMemory calls with contents that hold an e-mail address
SpecMail == Init /\ [][NextMail]_vars

NextBulkDelete ==
    \/ \E c \in Slots, u \in Users, content \in Contents, m \in Metadatas :
          AddStart(c, u, content, m)
    \/ \E c \in Slots : AddEmbedOk(c)
    \/ \E c \in Slots : AddEmbedFail(c)
    \/ \E c \in Slots : AddWriteOk(c)
    \/ \E c \in Slots : AddWriteFail(c)
    \/ \E u \in Users : DeleteUserMemories(u)
    \/ \E u \in {<<v>> : v \in Users} : GetMemoryCount(u)

\* deleteUserMemories and getMemoryCount run between the awaits of addMemory
SpecBulkDelete == Init /\ [][NextBulkDelete]_vars

NextRoundTrip ==
    \/ \E c \in Slots, u \in Users, content \in Contents, m \in Metadatas :
          AddStart(c, u, content, m)
    \/ \E c \in Slots : AddEmbedOk(c)
    \/ \E c \in Slots : AddEmbedFail(c)
    \/ \E c \in Slots : AddWriteOk(c)
    \/ \E c \in Slots : AddWriteFail(c)
    \/ \E u \in Users, q \in Contents, limit \in {Absent, <<1>>} :
          SearchMemories(u, q, limit, <<0>>)
    \/ \E id \in 0..(nextId - 1) : DeleteMemory(id)

\* memories are added and deleted while clients search with the contents
\* they added as queries, at the lowest threshold
SpecRoundTrip == Init /\ [][NextRoundTrip]_vars

----------------------------------------------------------------------------
(* chunkText and normalizeText called directly, on every text over their   *)
(* alphabets                                                               *)

sysVars == <<config, store, nextId, calls, ret, collection, procs>>

ChunkTextCall ==
    /\ input.fn = "chunkText"
    /\ ~output.done
    /\ output' = [done   |-> TRUE,
                  chunks |-> chunkText(input.text, input.maxTokens,
                                       input.overlapTokens)]
    /\ UNCHANGED <<sysVars, input, stream>>

NormalizeTextCall ==
    /\ input.fn = "normalizeText"
    /\ ~output.done
    /\ output' = [done |-> TRUE, text |-> normalizeText(input.text)]
    /\ UNCHANGED <<sysVars, input, stream>>

InitChunk ==
    /\ config \in {Constructor(cfg) : cfg \in ConfigInputs}
    /\ store = {}
    /\ nextId = 1
    /\ calls = [c \in Slots |-> IdleCall]
    /\ ret = [op |-> "init"]
    /\ input \in [fn            : {"chunkText"},
                  text          : Texts,
                  maxTokens     : 1..MaxTokensBound,
                  overlapTokens : 0..(MaxTokensBound - 1)]
                 \cup [fn : {"normalizeText"}, text : RawTexts]
    /\ output = NoOutput
    /\ stream = NoStream
    /\ collection = TRUE
    /\ procs = [p \in Processes |-> IdleProcess]

NextChunk ==
    \/ ChunkTextCall
    \/ NormalizeTextCall

SpecChunk == InitChunk /\ [][NextChunk]_vars

----------------------------------------------------------------------------
(* mcp-http-server.ts: POST /execute, requests handled one after the other *)

ToolNames ==
    {"search_memories", "add_memory", "get_memory_stats",
     "refine_prompt_with_memories", "store_conversation"}

\* the `required` list of each tool's inputSchema
RequiredArguments(tool) ==
    CASE tool = "search_memories"             -> {"userId", "query"}
      [] tool = "add_memory"                  -> {"userId", "content"}
      [] tool = "get_memory_stats"            -> {"userId"}
      [] tool = "refine_prompt_with_memories" -> {"userId", "prompt"}
      [] tool = "store_conversation"          -> {"userId", "question", "answer"}
      [] OTHER                                -> {}

ArgumentKeys == {"userId", "content", "query", "prompt", "question", "answer"}

\* the value a request carries under a key
ArgumentValue(k) == IF k = "userId" THEN "u1" ELSE <<"b">>

\* the `arguments` objects: every key, no key, every key but userId, and
\* userId alone
ArgumentObjects ==
    {[k \in K |-> ArgumentValue(k)] :
        K \in {ArgumentKeys, {}, ArgumentKeys \ {"userId"}, {"userId"}}}

ExecuteRequests ==
    [fn        : {"execute"},
     tool      : ToolNames \cup {"invalid_tool"},
     arguments : ArgumentObjects]

\* a userId that is undefined: the payload is stored without the key
UndefinedUser == "<undefined>"

\* `${x}` of a string argument that may be undefined
Interpolated(args, k) ==
    IF k \in DOMAIN args THEN args[k]
    ELSE <<"u","n","d","e","f","i","n","e","d">>

\* the response, with the calls the request made to Ollama and to Qdrant
Response(status, embedCalls, storeCalls) ==
    [done |-> TRUE, status |-> status,
     embedCalls |-> embedCalls, storeCalls |-> storeCalls]

\* the store after addMemory wrote the chunks i.. under the ids id..
RECURSIVE WriteChunks(_, _, _, _, _, _)
WriteChunks(s, chunks, i, id, userId, metadata) ==
    IF i > Len(chunks) THEN s
    ELSE WriteChunks(
             VectorStoreAddMemory(s, id, Embedding(chunks[i].text),
                 [text     |-> chunks[i].text,
                  userId   |-> userId,
                  metadata |-> ChunkMetadata(metadata, chunks[i], Len(chunks))]),
             chunks, i + 1, id + 1, userId, metadata)

\* memorySystem.addMemory called by the handler; embedOk and storeOk say
\* whether the calls to Ollama and to Qdrant resolve
ExecuteAdd(userId, content, metadata, embedOk, storeOk) ==
    IF content = Absent
    THEN \* normalizeText(undefined) throws a TypeError
         /\ output' = Response(500, 0, 0)
         /\ UNCHANGED <<store, nextId>>
    ELSE LET chunks == chunkText(normalizeText(content[1]),
                                config.maxChunkTokens, config.overlapTokens)
             K      == Len(chunks)
         IN  /\ nextId - 1 + K <= MaxIds
             /\ IF K = 0
                THEN /\ output' = Response(200, 0, 0)
                     /\ UNCHANGED <<store, nextId>>
                ELSE IF ~embedOk
                THEN /\ output' = Response(500, 1, 0)
                     /\ nextId' = nextId + 1
                     /\ UNCHANGED store
                ELSE IF ~storeOk
                THEN /\ output' = Response(500, 1, 1)
                     /\ nextId' = nextId + 1
                     /\ UNCHANGED store
                ELSE /\ output' = Response(200, K, K)
                     /\ nextId' = nextId + K
                     /\ store' = WriteChunks(store, chunks, 1, nextId,
                                             userId, metadata)

\* memorySystem.searchMemories or getMemoryCount called by the handler: the
\* calls are made whatever the arguments are
ExecuteRead(embedCalls, embedOk, storeOk) ==
    /\ output' = IF embedCalls = 1 /\ ~embedOk THEN Response(500, 1, 0)
                 ELSE IF ~storeOk THEN Response(500, embedCalls, 1)
                 ELSE Response(200, embedCalls, 1)
    /\ UNCHANGED <<store, nextId>>

\* a request arrives
ReceiveExecute(request) ==
    /\ input = NoInput \/ output.done
    /\ input' = request
    /\ output' = NoOutput
    /\ UNCHANGED <<config, store, nextId, calls, ret, stream, collection, procs>>

\* app.post('/execute'): the switch on the tool inside the try/catch
ExecuteTool(embedOk, storeOk) ==
    /\ input.fn = "execute"
    /\ ~output.done
    /\ LET tool   == input.tool
           args   == input.arguments
           userId == IF "userId" \in DOMAIN args THEN args.userId
                     ELSE UndefinedUser
       IN  CASE tool \in {"search_memories", "refine_prompt_with_memories"} ->
                    ExecuteRead(1, embedOk, storeOk)
             [] tool = "get_memory_stats" ->
                    ExecuteRead(0, embedOk, storeOk)
             [] tool = "add_memory" ->
                    ExecuteAdd(userId,
                               IF "content" \in DOMAIN args
                               THEN <<args.content>> ELSE Absent,
                               EmptyMetadata, embedOk, storeOk)
             [] tool = "store_conversation" ->
                    ExecuteAdd(userId,
                               <<(<<"Q", ":", " ">>
                                  \o Interpolated(args, "question")
                                  \o <<"\n", "A", ":", " ">>
                                  \o Interpolated(args, "answer"))>>,
                               [type |-> "conversation"],
                               embedOk, storeOk)
             [] OTHER ->
                    /\ output' = Response(400, 0, 0)
                    /\ UNCHANGED <<store, nextId>>
    /\ UNCHANGED <<config, calls, ret, input, stream, collection, procs>>

NextExecute ==
    \/ \E request \in ExecuteRequests : ReceiveExecute(request)
    \/ \E embedOk \in BOOLEAN, storeOk \in BOOLEAN :
          ExecuteTool(embedOk, storeOk)

SpecExecute == Init /\ [][NextExecute]_vars

----------------------------------------------------------------------------
(* cli.ts: the health command, run by processes that share one Qdrant.     *)
(* Every command starts with memorySystem.initialize(); each of its awaits *)
(* is a point where another process may run.                               *)

\* the lines the health command prints for a health report
HealthLines(health) ==
    <<IF health.qdrant THEN "Qdrant: Healthy" ELSE "Qdrant: Unhealthy",
      IF health.ollama THEN "Ollama: Healthy" ELSE "Ollama: Unhealthy">>

\* the command's catch block: print the error, process.exit(1)
CliFailed(proc, initialized) ==
    [proc EXCEPT !.pc = "exited", !.initialized = initialized,
                 !.printed = <<"Error">>, !.exit = 1]

\* a process starts `health` while Qdrant and Ollama are reachable or not
CliHealthStart(p, qdrantUp, ollamaUp) ==
    /\ procs[p].pc = "idle"
    /\ procs' = [procs EXCEPT ![p] = [pc          |-> "initialize",
                                      qdrantUp    |-> qdrantUp,
                                      ollamaUp    |-> ollamaUp,
                                      initialized |-> "pending",
                                      printed     |-> <<>>,
                                      exit        |-> -1]]
    /\ UNCHANGED <<config, store, nextId, calls, ret, input, output, stream,
                   collection>>

\* VectorStore.initialize: `await client.getCollections()`; it throws when
\* Qdrant is unreachable, and initialize rethrows
InitializeList(p) ==
    /\ procs[p].pc = "initialize"
    /\ procs' = [procs EXCEPT ![p] =
                    IF ~procs[p].qdrantUp THEN CliFailed(procs[p], "failed")
                    ELSE IF collection
                    THEN [procs[p] EXCEPT !.pc = "probe", !.initialized = "ok"]
                    ELSE [procs[p] EXCEPT !.pc = "create"]]
    /\ UNCHANGED <<config, store, nextId, calls, ret, input, output, stream,
                   collection>>

\* VectorStore.initialize: `await client.createCollection(...)` after the
\* list did not name the collection; Qdrant rejects the creation of a
\* collection that exists
InitializeCreate(p) ==
    /\ procs[p].pc = "create"
    /\ IF collection
       THEN /\ procs' = [procs EXCEPT ![p] = CliFailed(procs[p], "failed")]
            /\ UNCHANGED collection
       ELSE /\ procs' = [procs EXCEPT ![p].pc = "probe",
                                      ![p].initialized = "ok"]
            /\ collection' = TRUE
    /\ UNCHANGED <<config, store, nextId, calls, ret, input, output, stream>>

\* `await memorySystem.healthCheck()`, the two status lines, and exit code 1
\* when a service is unhealthy
CliHealthReport(p) ==
    /\ procs[p].pc = "probe"
    /\ LET health == healthCheck(procs[p].qdrantUp, procs[p].ollamaUp)
       IN  procs' = [procs EXCEPT
                        ![p].pc = "exited",
                        ![p].printed = HealthLines(health),
                        ![p].exit = IF ~health.qdrant \/ ~health.ollama
                                    THEN 1 ELSE 0]
    /\ UNCHANGED <<config, store, nextId, calls, ret, input, output, stream,
                   collection>>

\* the process is gone; the command may be run again
CliExit(p) ==
    /\ procs[p].pc = "exited"
    /\ procs' = [procs EXCEPT ![p] = IdleProcess]
    /\ UNCHANGED <<config, store, nextId, calls, ret, input, output, stream,
                   collection>>

\* a fresh Qdrant has no collection and no point
InitCli ==
    /\ config \in {Constructor(cfg) : cfg \in ConfigInputs}
    /\ store = {}
    /\ nextId = 1
    /\ calls = [c \in Slots |-> IdleCall]
    /\ ret = [op |-> "init"]
    /\ input = NoInput
    /\ output = NoOutput
    /\ stream = NoStream
    /\ collection \in BOOLEAN
    /\ procs = [p \in Processes |-> IdleProcess]

NextCli ==
    \/ \E p \in Processes, qdrantUp \in BOOLEAN, ollamaUp \in BOOLEAN :
          CliHealthStart(p, qdrantUp, ollamaUp)
    \/ \E p \in Processes : InitializeList(p)
    \/ \E p \in Processes : InitializeCreate(p)
    \/ \E p \in Processes : CliHealthReport(p)
    \/ \E p \in Processes : CliExit(p)

SpecCli == InitCli /\ [][NextCli]_vars

----------------------------------------------------------------------------
(* chatStream: the generator, the chat provider it reads, and the consumer *)
(* of POST /api/chat that drains it into a ReadableStream controller       *)

StreamUpdate(pc, chunk, received, yielded, enqueued, upstream, controller) ==
    [pc         |-> pc,          \* where the generator stands
     chunk      |-> chunk,       \* the loop variable of `for await`
     received   |-> received,    \* fragments the provider has delivered
     yielded    |-> yielded,     \* fragments the generator has yielded
     enqueued   |-> enqueued,    \* fragments the consumer has enqueued
     upstream   |-> upstream,    \* "unopened", "open", "ended" or "failed"
     controller |-> controller]  \* "open", "closed" or "errored"

\* the consumer's first next(): chatStream assembles the context and
\* `await ollama.chat({stream: true})` resolves
ChatStreamOpen ==
    /\ stream.pc = "start"
    /\ stream' = [stream EXCEPT !.pc = "pulling", !.upstream = "open"]
    /\ UNCHANGED <<sysVars, input, output>>

\* the memory search or ollama.chat throws before the first fragment
ChatStreamOpenFail ==
    /\ stream.pc = "start"
    /\ stream' = [stream EXCEPT !.pc = "thrown", !.upstream = "failed"]
    /\ UNCHANGED <<sysVars, input, output>>

\* the provider delivers the next fragment to the waiting `for await`
ProviderDeliver(f) ==
    /\ stream.pc = "pulling"
    /\ Len(stream.received) < MaxFragments
    /\ stream' = [stream EXCEPT !.pc = "yielding",
                                !.chunk = f,
                                !.received = Append(stream.received, f)]
    /\ UNCHANGED <<sysVars, input, output>>

\* a generator that puts each new fragment in front of the earlier ones
ChatStreamYield_prepend ==
    /\ stream.pc = "yielding"
    /\ stream' = [stream EXCEPT !.pc = "consuming",
                                !.yielded = <<stream.chunk>> \o stream.yielded]
    /\ UNCHANGED <<sysVars, input, output>>

\* `yield chunk.message.content`
ChatStreamYield ==
    /\ stream.pc = "yielding"
    /\ stream' = [stream EXCEPT !.pc = "consuming",
                                !.yielded = Append(stream.yielded, stream.chunk)]
    /\ UNCHANGED <<sysVars, input, output>>

\* the consumer: controller.enqueue(encode(chunk)), then the next next()
ConsumerEnqueue ==
    /\ stream.pc = "consuming"
    /\ stream' = [stream EXCEPT
                     !.pc = "pulling",
                     !.enqueued = Append(stream.enqueued,
                                         stream.yielded[Len(stream.yielded)])]
    /\ UNCHANGED <<sysVars, input, output>>

\* the provider ends its stream: the loop ends and the generator returns
ChatStreamUpstreamEnd ==
    /\ stream.pc = "pulling"
    /\ stream' = [stream EXCEPT !.pc = "returned", !.upstream = "ended"]
    /\ UNCHANGED <<sysVars, input, output>>

\* a generator that catches the provider's error and returns
ChatStreamUpstreamFail_swallowed ==
    /\ stream.pc = "pulling"
    /\ stream' = [stream EXCEPT !.pc = "returned", !.upstream = "failed"]
    /\ UNCHANGED <<sysVars, input, output>>

\* the provider fails: `for await` rejects, nothing catches it, the
\* generator throws
ChatStreamUpstreamFail ==
    /\ stream.pc = "pulling"
    /\ stream' = [stream EXCEPT !.pc = "thrown", !.upstream = "failed"]
    /\ UNCHANGED <<sysVars, input, output>>

\* the consumer's loop ended normally: controller.close()
ConsumerClose ==
    /\ stream.pc = "returned"
    /\ stream.controller = "open"
    /\ stream' = [stream EXCEPT !.controller = "closed"]
    /\ UNCHANGED <<sysVars, input, output>>

\* the consumer's loop threw: controller.error(error)
ConsumerError ==
    /\ stream.pc = "thrown"
    /\ stream.controller = "open"
    /\ stream' = [stream EXCEPT !.controller = "errored"]
    /\ UNCHANGED <<sysVars, input, output>>

InitStream ==
    /\ config \in {Constructor(cfg) : cfg \in ConfigInputs}
    /\ store = {}
    /\ nextId = 1
    /\ calls = [c \in Slots |-> IdleCall]
    /\ ret = [op |-> "init"]
    /\ input = NoInput
    /\ output = NoOutput
    /\ stream = StreamUpdate("start", "", <<>>, <<>>, <<>>, "unopened", "open")
    /\ collection = TRUE
    /\ procs = [p \in Processes |-> IdleProcess]

NextStream ==
    \/ ChatStreamOpen
    \/ ChatStreamOpenFail
    \/ \E f \in Fragments : ProviderDeliver(f)
    \/ ChatStreamYield
    \/ ConsumerEnqueue
    \/ ChatStreamUpstreamEnd
    \/ ChatStreamUpstreamFail
    \/ ConsumerClose
    \/ ConsumerError

SpecStream == InitStream /\ [][NextStream]_vars

----------------------------------------------------------------------------
(* Properties of the memory system *)

StoredIds == {p.id : p \in store}

\* the chunks addMemory makes of a content under the configuration
ChunksOf(content) ==
    chunkText(normalizeText(content), config.maxChunkTokens,
              config.overlapTokens)

\* C1: every result returned by searchMemories(userId = u, ...) is a chunk
\* stored with userId = u, whatever was added and deleted before, for every
\* query, limit and scoreThreshold.
C1_SearchOnlyOwnUser ==
    (ret.op = "searchMemories" /\ ret.ok) =>
        \A i \in 1..Len(ret.results) :
            /\ \E p \in store : p.id = ret.results[i].id
            /\ \A p \in store : p.id = ret.results[i].id =>
                  /\ p.payload.userId = ret.userId
                  /\ p.payload.text = ret.results[i].text

\* a search returned a hit while another user's chunk met the threshold too
C1_Witness ==
    /\ ret.op = "searchMemories" /\ ret.ok
    /\ Len(ret.results) >= 1
    /\ \E p \in store :
          /\ p.payload.userId # ret.userId
          /\ Score(Embedding(ret.query), p.vector)
                >= Defaulted(ret.scoreThreshold, 50)

\* C2: searchMemories returns at most `limit` results (5 when omitted), each
\* with score >= scoreThreshold (0.5 when omitted), and what it returns is a
\* result array of the store, unchanged.
C2_SearchLimitAndThreshold ==
    (ret.op = "searchMemories" /\ ret.ok) =>
        /\ Len(ret.results) <= Defaulted(ret.limit, 5)
        /\ \A i \in 1..Len(ret.results) :
              ret.results[i].score >= Defaulted(ret.scoreThreshold, 50)
        /\ ret.results \in VectorStoreSearch(store, Embedding(ret.query),
                                             ret.userId,
                                             Defaulted(ret.limit, 5),
                                             Defaulted(ret.scoreThreshold, 50))

\* a search cut to its limit, and a default-threshold search that left out a
\* chunk of the user scoring below 0.5
C2_Witness ==
    /\ ret.op = "searchMemories" /\ ret.ok
    /\ \/ /\ ret.limit = <<1>>
          /\ Len(ret.results) = 1
          /\ Cardinality({p \in store : p.payload.userId = ret.userId}) >= 2
       \/ /\ ret.scoreThreshold = Absent
          /\ \E p \in store :
                /\ p.payload.userId = ret.userId
                /\ Score(Embedding(ret.query), p.vector) < 50

\* C3: getMemoryCount(u) called right after deleteUserMemories(u) completed,
\* with no write in between, returns 0, for every userId u.
C3_CountAfterDeleteUser ==
    [][(/\ ret.op = "deleteUserMemories" /\ ret.ok
        /\ ret'.op = "getMemoryCount" /\ ret'.ok
        /\ ret'.userId = <<ret.userId>>)
       => ret'.count = 0]_vars

\* C4: a successful addMemory whose content chunks into K chunks returns K
\* distinct ids; each was not in the store when its record was written, the
\* write overwrote nothing, and the i-th id names the record with the i-th
\* chunk's text, the given userId, chunkIndex = i and totalChunks = K.
C4_AddMemoryIds ==
    [][ret'.op = "addMemory" =>
        LET r      == ret'
            chunks == ChunksOf(r.content)
            K      == Len(chunks)
            Names(p, i) ==
                /\ p.payload.text = chunks[i].text
                /\ p.payload.userId = r.userId
                /\ p.payload.metadata.chunkIndex = i - 1
                /\ p.payload.metadata.totalChunks = K
        IN  /\ r.wrote # Absent =>
                  LET i == Len(r.memoryIds)
                  IN  /\ r.memoryIds[i] = r.wrote[1]
                      /\ r.wrote[1] \notin StoredIds
                      /\ store \subseteq store'
                      /\ \E p \in store' :
                            /\ store' \ store = {p}
                            /\ p.id = r.wrote[1]
                            /\ Names(p, i)
            /\ (r.done /\ r.ok) =>
                  /\ Len(r.ids) = K
                  /\ r.ids = r.memoryIds
                  /\ \A i, j \in 1..K : i # j => r.ids[i] # r.ids[j]
                  /\ \A i \in 1..K : \A p \in store' :
                        p.id = r.ids[i] => Names(p, i)]_vars

\* addMemory returned two ids and both records are stored
C4_Witness ==
    /\ ret.op = "addMemory" /\ ret.done /\ ret.ok
    /\ Len(ret.ids) = 2
    /\ \A i \in 1..2 : ret.ids[i] \in StoredIds

\* C5: when the embedding call or the store write of chunk j fails, addMemory
\* fails and returns no ids, the store is left exactly as it was (the records
\* of chunks 0..j-1 are not rolled back), no record of chunk j exists, and the
\* call is over: nothing is retried and no later chunk is written.
C5_AddMemoryPartialFailure ==
    [][(ret'.op = "addMemory" /\ ret'.done /\ ~ret'.ok) =>
        /\ ret'.ids = <<>>
        /\ store' = store
        /\ ret'.failedId[1] \notin {p.id : p \in store'}
        /\ calls[ret'.slot].pc \in {"embed", "write"}
        /\ Len(calls[ret'.slot].memoryIds) = Len(ret'.memoryIds)
        /\ calls'[ret'.slot].pc = "idle"]_vars

\* addMemory failed at its second chunk while its first chunk is stored
C5_Witness ==
    /\ ret.op = "addMemory" /\ ret.done /\ ~ret.ok
    /\ Len(ret.memoryIds) = 1
    /\ ret.memoryIds[1] \in StoredIds

\* C6: chat returns memoriesUsed = maxContextMemories exactly when
\* includeMemoryContext is true and the search returned at least one result,
\* and memoriesUsed = 0 otherwise.
C6_MemoriesUsed ==
    (ret.op = "chat" /\ ret.ok) =>
        ret.result.memoriesUsed =
            (IF ret.includeMemoryContext /\ Len(ret.memories) >= 1
             THEN ret.maxContextMemories ELSE 0)

\* C7: healthCheck does not raise and reports qdrant = the vector store is
\* reachable and ollama = the embedding service is reachable, each on its own.
C7_HealthCheckIndependent ==
    ret.op = "healthCheck" =>
        /\ ~ret.raised
        /\ ret.health.qdrant = ret.qdrantReachable
        /\ ret.health.ollama = ret.ollamaReachable

\* the vector store is down and the embedding service is reported up
C7_Witness ==
    /\ ret.op = "healthCheck"
    /\ ~ret.qdrantReachable
    /\ ret.ollamaReachable
    /\ ret.health = [qdrant |-> FALSE, ollama |-> TRUE]

ExtractedKeys == {"wordCount", "charCount", "hasUrl", "hasEmail", "language"}

DerivedKeys == ExtractedKeys \cup {"chunkIndex", "totalChunks"}

\* the metadata stored with the record that the addMemory step just wrote
WrittenMetadata ==
    (CHOOSE p \in store : p.id = ret.wrote[1]).payload.metadata

\* the chunk that the addMemory step just wrote
WrittenChunk == ChunksOf(ret.content)[Len(ret.memoryIds)]

\* C18 as claimed: the stored metadata has the caller's keys and the derived
\* keys; a caller key that extractMetadata also produces holds the extracted
\* value, and every other caller key, chunkIndex and totalChunks included,
\* holds the caller's value.
C18_CallerKeptOutsideExtraction ==
    (ret.op = "addMemory" /\ ret.wrote # Absent) =>
        LET md == WrittenMetadata
        IN  /\ DOMAIN md = DOMAIN ret.metadata \cup DerivedKeys
            /\ \A k \in DOMAIN ret.metadata :
                  md[k] = IF k \in ExtractedKeys
                          THEN extractMetadata(WrittenChunk.text)[k]
                          ELSE ret.metadata[k]

\* C18 amended: the stored metadata has the caller's keys and the derived
\* keys; every derived key holds the derived value, also when the caller
\* supplied that key (the extracted keys, chunkIndex and totalChunks alike),
\* and every caller key that is not a derived key holds the caller's value.
C18_DerivedKeysWin ==
    (ret.op = "addMemory" /\ ret.wrote # Absent) =>
        LET md == WrittenMetadata
        IN  /\ DOMAIN md = DOMAIN ret.metadata \cup DerivedKeys
            /\ \A k \in ExtractedKeys :
                  md[k] = extractMetadata(WrittenChunk.text)[k]
            /\ md.chunkIndex = Len(ret.memoryIds) - 1
            /\ md.totalChunks = Len(ChunksOf(ret.content))
            /\ \A k \in DOMAIN ret.metadata \ DerivedKeys :
                  md[k] = ret.metadata[k]

\* the second chunk of a memory was written for a caller who supplied type,
\* chunkIndex 7 and wordCount 99: type is kept, the other two are derived
C18_Witness ==
    /\ ret.op = "addMemory" /\ ret.wrote # Absent
    /\ Len(ret.memoryIds) = 2
    /\ ret.metadata.chunkIndex = 7 /\ ret.metadata.wordCount = 99
    /\ WrittenMetadata.type = "test"
    /\ WrittenMetadata.chunkIndex = 1
    /\ WrittenMetadata.wordCount = 1

\* searchMemories(u, content) at threshold 0 directly follows the successful
\* return of addMemory(u, content)
SearchFollowsAdd ==
    /\ ret.op = "addMemory" /\ ret.done /\ ret.ok
    /\ ret'.op = "searchMemories" /\ ret'.ok
    /\ ret'.userId = ret.userId
    /\ ret'.query = ret.content
    /\ ret'.scoreThreshold = <<0>>

\* a result of the search is a chunk that the addMemory call wrote
FindsChunkOfAdd ==
    \E i \in 1..Len(ret'.results) : \E j \in 1..Len(ret.ids) :
        /\ ret'.results[i].id = ret.ids[j]
        /\ ret'.results[i].text = ChunksOf(ret.content)[j].text

\* C19 as claimed: for every userId and every content that addMemory accepts,
\* searchMemories(u, content) with the lowest threshold, right after
\* addMemory(u, content) succeeded, returns at least one chunk that this
\* addMemory call made of the content.
C19_RoundTrip ==
    [][(SearchFollowsAdd /\ ret'.limit = Absent) => FindsChunkOfAdd]_vars

\* C19 amended: the same for every content that has at least one sentence,
\* when the search's limit (5 when omitted) is not smaller than the number
\* of chunks stored for the user.
C19_RoundTripWhenChunked ==
    [][(/\ SearchFollowsAdd
        /\ Len(splitIntoSentences(normalizeText(ret.content))) >= 1
        /\ Defaulted(ret'.limit, 5)
              >= Cardinality({p \in store : p.payload.userId = ret.userId}))
       => FindsChunkOfAdd]_vars

\* a search with a two-sentence content as its query returned both chunks of
\* that content for the user
C19_Witness ==
    /\ ret.op = "searchMemories" /\ ret.ok
    /\ ret.scoreThreshold = <<0>> /\ ret.limit = Absent
    /\ Len(ChunksOf(ret.query)) = 2
    /\ \A j \in 1..2 : \E i \in 1..Len(ret.results) :
          /\ ret.results[i].text = ChunksOf(ret.query)[j].text
          /\ \E p \in store : /\ p.id = ret.results[i].id
                               /\ p.payload.userId = ret.userId

\* C20: deleteMemory(id) removes the stored chunk with that id and nothing
\* else: at most one chunk goes, every other chunk, of any user and of the
\* same multi-chunk memory, stays as it was, and when no chunk has that id
\* the call succeeds and the store is unchanged.
C20_DeleteMemoryExact ==
    [][(ret'.op = "deleteMemory" /\ ret'.ok) =>
        /\ ret'.id \notin {p.id : p \in store'}
        /\ store' \subseteq store
        /\ \A p \in store : p.id # ret'.id => p \in store'
        /\ Cardinality(store \ store') <= 1
        /\ ret'.id \notin StoredIds => store' = store]_vars

\* the first chunk of a two-chunk memory has been deleted by id while its
\* second chunk and a chunk of another user are stored
C20_Witness ==
    /\ ret.op = "deleteMemory" /\ ret.ok
    /\ ret.id \notin StoredIds
    /\ \E p, q \in store :
          /\ p.id = ret.id + 1
          /\ p.payload.metadata.chunkIndex = 1
          /\ q.payload.userId # p.payload.userId

\* C21: getMemoryCount(u) returns the number of stored chunks whose userId
\* is u, for every string u that addMemory stores chunks under, and
\* getMemoryCount() without a userId returns the number of all stored chunks.
C21_CountIsExact ==
    (ret.op = "getMemoryCount" /\ ret.ok) =>
        ret.count = IF ret.userId = Absent
                    THEN Cardinality(store)
                    ELSE Cardinality({p \in store :
                                        p.payload.userId = ret.userId[1]})

\* C22: a POST /execute request naming a known tool without one of its
\* required arguments is answered with status 400 and makes no call to the
\* embedding provider or the vector store; a request naming an unknown tool
\* is answered with status 400.
C22_ExecuteValidation ==
    (input.fn = "execute" /\ output.done) =>
        /\ (/\ input.tool \in ToolNames
            /\ ~(RequiredArguments(input.tool) \subseteq DOMAIN input.arguments))
           => /\ output.status = 400
              /\ output.embedCalls = 0
              /\ output.storeCalls = 0
        /\ input.tool \notin ToolNames => output.status = 400

\* C23: while only addMemory calls run, two of them interleaving in any
\* order, no step removes or replaces a stored chunk, every write adds one
\* chunk under an id that no stored chunk and no other call has, and a call
\* that completes returns the ids of its own chunks in chunk order, each
\* stored once with that chunk's text, none of them an id of the other call.
C23_ConcurrentAdds ==
    [][/\ store \subseteq store'
       /\ Cardinality(store' \ store) <= 1
       /\ \A p \in store' \ store : p.id \notin StoredIds
       /\ (ret'.op = "addMemory" /\ ret'.done /\ ret'.ok) =>
             LET chunks == ChunksOf(ret'.content)
             IN  /\ Len(ret'.ids) = Len(chunks)
                 /\ \A i \in 1..Len(chunks) :
                       /\ Cardinality({p \in store' : p.id = ret'.ids[i]}) = 1
                       /\ \A p \in store' : p.id = ret'.ids[i] =>
                             /\ p.payload.text = chunks[i].text
                             /\ p.payload.userId = ret'.userId
                             /\ p.payload.metadata.chunkIndex = i - 1
                       /\ \A d \in Slots : calls'[d].pc # "idle" =>
                             /\ calls'[d].id # ret'.ids[i]
                             /\ \A j \in 1..Len(calls'[d].memoryIds) :
                                   calls'[d].memoryIds[j] # ret'.ids[i]]_vars

\* a two-chunk call has completed for a user whose other call drew its id
\* and wrote its chunk between the two writes of this call
C23_Witness ==
    /\ ret.op = "addMemory" /\ ret.done /\ ret.ok
    /\ Len(ret.ids) = 2
    /\ ret.ids[2] > ret.ids[1] + 1
    /\ \E p \in store :
          /\ p.id > ret.ids[1] /\ p.id < ret.ids[2]
          /\ p.payload.userId = ret.userId
    /\ \A i \in 1..2 : ret.ids[i] \in StoredIds

\* C26: in chat and in chatStream alike, the search for the context uses
\* limit = maxContextMemories and the default threshold 0.5, and the system
\* message is the supplied or default prompt alone when includeMemoryContext
\* is false or nothing was found, and otherwise that prompt with one block
\* that lists every memory found once, in result order, numbered from 1
\* with its relevance; so both send the same message for the same options
\* and search result.
C26_SystemMessage ==
    (ret.op \in {"chat", "chatStream"} /\ ret.ok) =>
        LET prompt == IF ret.systemPrompt = Absent
                      THEN "You are a helpful AI assistant with access to the user's memories."
                      ELSE ret.systemPrompt[1]
            found  == ret.memories
        IN  /\ found \in (IF ret.includeMemoryContext
                          THEN VectorStoreSearch(store, Embedding(ret.message),
                                                 ret.userId,
                                                 ret.maxContextMemories, 50)
                          ELSE {<<>>})
            /\ ret.system.prompt = prompt
            /\ Len(ret.system.context) = Len(found)
            /\ \A i \in 1..Len(found) :
                  ret.system.context[i] = [number    |-> i,
                                           relevance |-> found[i].score,
                                           text      |-> found[i].text]
            /\ (~ret.includeMemoryContext \/ found = <<>>)
                  => ret.system = [prompt |-> prompt, context |-> <<>>]

\* chatStream with a supplied prompt has put two memories into its context
C26_Witness ==
    /\ ret.op = "chatStream" /\ ret.ok
    /\ ret.systemPrompt = <<"Be brief">>
    /\ Len(ret.memories) = 2
    /\ ret.system.context[2].number = 2
    /\ ret.system.context[2].text = ret.memories[2].text

\* C27: a system constructed with maxChunkTokens and overlapTokens chunks
\* every content with exactly the supplied values, 500 and 50 standing in
\* only for an option that was not supplied; with overlapTokens = 0 no
\* chunk starts with a sentence of the chunk before.
C27_ConfigUsedAsSupplied ==
    \A c \in Slots :
        (input.fn = "constructor" /\ calls[c].pc # "idle") =>
            calls[c].chunks
                = chunkText(normalizeText(calls[c].content),
                            Defaulted(input.config.maxChunkTokens, 500),
                            Defaulted(input.config.overlapTokens, 50))

\* no '!' and no '?', and every '.' is the last character or is followed
\* by a space
PeriodsEndSentences(text) ==
    \A i \in 1..Len(text) :
        /\ text[i] \notin {"!", "?"}
        /\ text[i] = "." => (i = Len(text) \/ text[i + 1] = " ")

\* C28: every chunk text that chunkText produces has no '!' and no '?', and
\* each '.' in it is its last character or is followed by a space; so for
\* every content given to addMemory, a content with an e-mail address
\* included, the hasEmail stored with each chunk is false.
C28_HasEmailNeverStored ==
    /\ \A c \in Slots : calls[c].pc # "idle" =>
          \A i \in 1..Len(calls[c].chunks) :
              PeriodsEndSentences(calls[c].chunks[i].text)
    /\ \A p \in store :
          /\ PeriodsEndSentences(p.payload.text)
          /\ p.payload.metadata.hasEmail = FALSE

\* a chunk of a content in which the e-mail pattern is found has been
\* stored, with the '@' in its text and hasEmail false
C28_Witness ==
    /\ ret.op = "addMemory" /\ ret.wrote # Absent
    /\ HasEmail(ret.content)
    /\ \E p \in store :
          /\ p.id = ret.wrote[1]
          /\ \E i \in 1..Len(p.payload.text) : p.payload.text[i] = "@"
          /\ p.payload.metadata.hasEmail = FALSE

\* C30: bulk deletion is all-or-nothing per memory: when an addMemory call
\* of several chunks has completed, with deleteUserMemories calls of the same
\* user running between its steps in any order, the store holds either every
\* chunk of that call or none of them.
C30_BulkDeleteAllOrNothing ==
    (ret.op = "addMemory" /\ ret.done /\ ret.ok) =>
        LET ids == {ret.ids[i] : i \in 1..Len(ret.ids)}
        IN  \/ ids \subseteq StoredIds
            \/ ids \cap StoredIds = {}

----------------------------------------------------------------------------
(* Properties of the CLI *)

\* C24: with the vector store reachable, every initialize call completes
\* without error, whether the collection exists or not, when repeated and
\* when the calls of two processes overlap.
C24_InitializeCreateIfAbsent ==
    \A p \in Processes :
        (procs[p].pc # "idle" /\ procs[p].qdrantUp)
            => procs[p].initialized # "failed"

\* C29: the health command prints one status line for Qdrant and one for
\* Ollama that match what is reachable, for every combination, and exits
\* non-zero exactly when one of them is down.
C29_CliHealthReportsBoth ==
    \A p \in Processes :
        procs[p].pc = "exited" =>
            /\ procs[p].printed
                  = HealthLines([qdrant |-> procs[p].qdrantUp,
                                 ollama |-> procs[p].ollamaUp])
            /\ (procs[p].exit # 0)
                  <=> (~procs[p].qdrantUp \/ ~procs[p].ollamaUp)

----------------------------------------------------------------------------
(* Properties of chatStream *)

IsPrefix(s, t) == Len(s) <= Len(t) /\ \A i \in 1..Len(s) : s[i] = t[i]

\* C8: chatStream yields exactly the provider's fragments in the order
\* received, one for one: what it has yielded is a prefix of what it has
\* received, at most the fragment in hand is not yet yielded, and whenever it
\* asks for the next fragment or ends, everything received has been yielded.
C8_StreamPreservesFragments ==
    /\ IsPrefix(stream.yielded, stream.received)
    /\ Len(stream.received) <= Len(stream.yielded) + 1
    /\ stream.pc # "yielding" => stream.yielded = stream.received

\* a stream that ended after yielding at least two fragments, the first two
\* different
C8_Witness ==
    /\ stream.pc = "returned"
    /\ Len(stream.yielded) >= 2
    /\ stream.yielded[1] # stream.yielded[2]

\* C9: when the provider fails after n fragments were yielded, the generator
\* throws and the consumer's stream is errored after those n fragments; it is
\* never closed as a normal completion.
C9_StreamErrorPropagates ==
    /\ stream.upstream = "failed" =>
          /\ stream.pc = "thrown"
          /\ stream.controller # "closed"
          /\ stream.controller = "errored" => stream.enqueued = stream.received
    /\ stream.controller = "closed" =>
          /\ stream.upstream = "ended"
          /\ stream.enqueued = stream.received

\* the provider failed after one or more fragments and the consumer's stream
\* is errored
C9_Witness ==
    /\ stream.upstream = "failed"
    /\ stream.controller = "errored"
    /\ Len(stream.enqueued) >= 1

----------------------------------------------------------------------------
(* Properties of chunkText *)

\* the sentences joined by ". ", with one trailing period
RECURSIVE JoinedWithPeriods(_, _)
JoinedWithPeriods(ss, i) ==
    IF i > Len(ss) THEN <<>>
    ELSE ss[i] \o (IF i < Len(ss) THEN <<".", " ">> ELSE <<".">>)
         \o JoinedWithPeriods(ss, i + 1)

SentenceTokens(ss) == SeqSum([i \in 1..Len(ss) |-> estimateTokenCount(ss[i])])

\* C10: a text with at least one sentence whose sentences' estimated token
\* counts sum to at most maxTokens gives exactly one chunk, of index 0, whose
\* text is the sentences in input order joined by ". " with one trailing
\* period, and whose tokenCount is that sum.
C10_SingleChunk ==
    (input.fn = "chunkText" /\ output.done) =>
        LET ss == splitIntoSentences(input.text)
        IN  (Len(ss) >= 1 /\ SentenceTokens(ss) <= input.maxTokens) =>
                /\ Len(output.chunks) = 1
                /\ output.chunks[1].index = 0
                /\ output.chunks[1].text = JoinedWithPeriods(ss, 1)
                /\ output.chunks[1].tokenCount = SentenceTokens(ss)

\* two or more sentences that fit maxTokens exactly came out as one chunk
C10_Witness ==
    /\ input.fn = "chunkText" /\ output.done
    /\ Len(splitIntoSentences(input.text)) >= 2
    /\ SentenceTokens(splitIntoSentences(input.text)) = input.maxTokens
    /\ Len(output.chunks) = 1

\* the sentences of a chunk: its text is its sentences joined by ". " with a
\* trailing period, and no sentence holds a terminator
SentencesOf(chunk) == splitIntoSentences(chunk.text)

\* C11: chunkText returns the empty sequence when the text is empty or holds
\* only whitespace and the terminators '.', '!', '?', for every maxTokens and
\* overlapTokens, and otherwise at least one chunk, each with non-empty text.
C11_EmptyAndNonEmpty ==
    (input.fn = "chunkText" /\ output.done) =>
        LET noSentence == \A i \in 1..Len(input.text) :
                              input.text[i] \in Whitespace \cup Terminators
        IN  /\ noSentence => output.chunks = <<>>
            /\ ~noSentence =>
                  /\ Len(output.chunks) >= 1
                  /\ \A i \in 1..Len(output.chunks) :
                        /\ Len(output.chunks[i].text) >= 1
                        /\ Len(SentencesOf(output.chunks[i])) >= 1

\* a non-empty text of blanks and periods gave no chunk
C11_Witness ==
    /\ input.fn = "chunkText" /\ output.done
    /\ Len(input.text) >= 3
    /\ \E i \in 1..Len(input.text) : input.text[i] = "."
    /\ \E i \in 1..Len(input.text) : input.text[i] = " "
    /\ \A i \in 1..Len(input.text) : input.text[i] # "a"
    /\ output.chunks = <<>>

\* C12: when every sentence's estimated token count is at most maxTokens and
\* overlapTokens < maxTokens, every chunk has tokenCount <= maxTokens.
C12_ChunksWithinMaxTokens ==
    (input.fn = "chunkText" /\ output.done) =>
        LET ss == splitIntoSentences(input.text)
        IN  (/\ \A i \in 1..Len(ss) : estimateTokenCount(ss[i]) <= input.maxTokens
             /\ input.overlapTokens < input.maxTokens) =>
                \A i \in 1..Len(output.chunks) :
                    output.chunks[i].tokenCount <= input.maxTokens

\* C13: a sentence whose estimated token count alone exceeds maxTokens is in
\* some chunk as a whole sentence, and every chunk that contains it contains
\* no other sentence, wherever it stands and whatever overlapTokens is.
C13_OversizedSentenceAlone ==
    (input.fn = "chunkText" /\ output.done) =>
        LET ss == splitIntoSentences(input.text)
        IN  \A j \in 1..Len(ss) :
                estimateTokenCount(ss[j]) > input.maxTokens =>
                    /\ \E i \in 1..Len(output.chunks) :
                          \E k \in 1..Len(SentencesOf(output.chunks[i])) :
                              SentencesOf(output.chunks[i])[k] = ss[j]
                    /\ \A i \in 1..Len(output.chunks) :
                          (\E k \in 1..Len(SentencesOf(output.chunks[i])) :
                              SentencesOf(output.chunks[i])[k] = ss[j])
                          => SentencesOf(output.chunks[i]) = <<ss[j]>>

\* the number of sentences at the end of the list ss whose estimated token
\* counts sum to at most overlapTokens, as many as possible
SuffixLen(ss, overlapTokens) ==
    LET Last(k) == SubSeq(ss, Len(ss) - k + 1, Len(ss))
    IN  CHOOSE k \in 0..Len(ss) :
            /\ SentenceTokens(Last(k)) <= overlapTokens
            /\ \A m \in (k + 1)..Len(ss) : SentenceTokens(Last(m)) > overlapTokens

\* the sentences of chunks i.. that are not the overlap carried from the
\* chunk before
RECURSIVE FreshSentences(_, _, _)
FreshSentences(chunks, i, overlapTokens) ==
    IF i > Len(chunks) THEN <<>>
    ELSE LET S == SentencesOf(chunks[i])
             k == IF i = 1 THEN 0
                  ELSE SuffixLen(SentencesOf(chunks[i - 1]), overlapTokens)
         IN  SubSeq(S, k + 1, Len(S))
             \o FreshSentences(chunks, i + 1, overlapTokens)

\* C14: each chunk after the first begins with exactly the longest run of
\* whole sentences at the end of the chunk before it whose estimated token
\* counts sum to at most overlapTokens (possibly none), in their order, and
\* goes on with sentences not yet emitted: the sentences after the overlap,
\* taken over all chunks, are the sentences of the text in order.
C14_OverlapIsLongestSuffix ==
    (input.fn = "chunkText" /\ output.done) =>
        LET chunks == output.chunks
        IN  /\ \A i \in 1..(Len(chunks) - 1) :
                  LET S == SentencesOf(chunks[i])
                      T == SentencesOf(chunks[i + 1])
                      k == SuffixLen(S, input.overlapTokens)
                  IN  /\ k < Len(T)
                      /\ SubSeq(T, 1, k) = SubSeq(S, Len(S) - k + 1, Len(S))
            /\ FreshSentences(chunks, 1, input.overlapTokens)
                  = splitIntoSentences(input.text)

\* a chunk ending with a sentence that does not fit overlapTokens, before it
\* a sentence that would fit, and the next chunk carrying nothing over
C14_Witness ==
    /\ input.fn = "chunkText" /\ output.done
    /\ Len(output.chunks) = 2
    /\ LET S == SentencesOf(output.chunks[1])
           T == SentencesOf(output.chunks[2])
       IN  /\ Len(S) = 2
           /\ estimateTokenCount(S[2]) > input.overlapTokens
           /\ estimateTokenCount(S[1]) <= input.overlapTokens
           /\ Len(T) = 1

\* C15: every chunk's tokenCount is the sum of ceil(length / 4) over the
\* sentences the chunk contains, overlap sentences included; it is not the
\* estimate of the joined chunk text.
C15_TokenCountIsSumOfSentences ==
    (input.fn = "chunkText" /\ output.done) =>
        \A i \in 1..Len(output.chunks) :
            LET S == SentencesOf(output.chunks[i])
                Ceil4(n) == CHOOSE k \in 0..n : 4 * k >= n /\ 4 * k < n + 4
            IN  output.chunks[i].tokenCount
                    = SeqSum([k \in 1..Len(S) |-> Ceil4(Len(S[k]))])

\* a chunk that starts with carried-over sentences and whose tokenCount is
\* not ceil(length / 4) of its joined text
C15_Witness ==
    /\ input.fn = "chunkText" /\ output.done
    /\ Len(output.chunks) >= 2
    /\ SuffixLen(SentencesOf(output.chunks[1]), input.overlapTokens) >= 1
    /\ output.chunks[2].tokenCount
          # (Len(output.chunks[2].text) + 3) \div 4

\* C25: chunkText loses and reorders nothing: every sentence of the text is
\* in some chunk, the sentences of each chunk are consecutive sentences of
\* the text in their order, every chunk has a sentence beyond the overlap it
\* carries from the chunk before, there are at most as many chunks as
\* sentences, and the chunks without their leading overlap, put end to end,
\* are the sentences of the text.
C25_NothingLostOrReordered ==
    (input.fn = "chunkText" /\ output.done) =>
        LET ss     == splitIntoSentences(input.text)
            chunks == output.chunks
        IN  /\ Len(chunks) <= Len(ss)
            /\ \A j \in 1..Len(ss) : \E i \in 1..Len(chunks) :
                  \E k \in 1..Len(SentencesOf(chunks[i])) :
                      SentencesOf(chunks[i])[k] = ss[j]
            /\ \A i \in 1..Len(chunks) :
                  LET S == SentencesOf(chunks[i])
                  IN  \E a \in 1..Len(ss) :
                          /\ a + Len(S) - 1 <= Len(ss)
                          /\ SubSeq(ss, a, a + Len(S) - 1) = S
            /\ \A i \in 2..Len(chunks) :
                  Len(SentencesOf(chunks[i]))
                      > SuffixLen(SentencesOf(chunks[i - 1]), input.overlapTokens)
            /\ FreshSentences(chunks, 1, input.overlapTokens) = ss

\* three sentences of different lengths came out as two chunks, the second
\* starting with two sentences carried over from the first
C25_Witness ==
    /\ input.fn = "chunkText" /\ output.done
    /\ Len(output.chunks) = 2
    /\ Len(splitIntoSentences(input.text)) = 3
    /\ LET S == SentencesOf(output.chunks[1])
           T == SentencesOf(output.chunks[2])
       IN  /\ Len(S) = 2 /\ S[1] # S[2]
           /\ Len(T) = 3
           /\ T[1] = S[1] /\ T[2] = S[2]

----------------------------------------------------------------------------
(* Properties of normalizeText *)

\* C16: normalizeText returns a string for every string, applying it to its
\* own output changes nothing, and the output has no whitespace at either
\* end and no two whitespace characters in a row.
C16_NormalizeIdempotent ==
    (input.fn = "normalizeText" /\ output.done) =>
        LET t == output.text
        IN  /\ t \in Seq(RawAlphabet)
            /\ normalizeText(t) = t
            /\ t # <<>> => (t[1] \notin Whitespace /\ t[Len(t)] \notin Whitespace)
            /\ \A i \in 1..(Len(t) - 1) :
                  ~(t[i] \in Whitespace /\ t[i + 1] \in Whitespace)

\* a text with whitespace at both ends and a run of mixed whitespace inside
\* was normalized to two words with one space between
C16_Witness ==
    /\ input.fn = "normalizeText" /\ output.done
    /\ Len(input.text) >= 1
    /\ input.text[1] \in Whitespace
    /\ input.text[Len(input.text)] \in Whitespace
    /\ \E i \in 1..(Len(input.text) - 1) :
          input.text[i] = "\n" /\ input.text[i + 1] = " "
    /\ output.text = <<"a", " ", "a">>

RECURSIVE Words(_, _)
Words(s, cur) ==
    IF s = <<>> THEN (IF cur = <<>> THEN <<>> ELSE <<cur>>)
    ELSE IF Head(s) \in Whitespace
         THEN (IF cur = <<>> THEN <<>> ELSE <<cur>>) \o Words(Tail(s), <<>>)
         ELSE Words(Tail(s), Append(cur, Head(s)))

RECURSIVE JoinedWithSpaces(_)
JoinedWithSpaces(ws) ==
    IF ws = <<>> THEN <<>>
    ELSE IF Len(ws) = 1 THEN Head(ws)
    ELSE Head(ws) \o <<" ">> \o JoinedWithSpaces(Tail(ws))

====
